---- MODULE Spec2Model ----
(***************************************************************************)
(* Model of packages/backend/src/scripts/stt.py: the command-line shim     *)
(* (__main__) and the transcription driver transcribe_audio, statement by  *)
(* statement.  The speech engine (vosk), the wave module and the file      *)
(* system are the environment: what they answer is chosen when they are    *)
(* asked and remembered in `memo`, so that asking the same question of the *)
(* same file again gets the same answer (a deterministic engine).          *)
(*                                                                         *)
(* Strings that the program computes on (recognized texts) are sequences   *)
(* of one-character strings; error messages are sequences of pieces.       *)
(***************************************************************************)
EXTENDS Integers, Sequences, FiniteSets, TLC

VARIABLES
    argv,        \* positional arguments: sys.argv[1:]
    fs,          \* file system: path -> [exists, nchannels, nframes]
    modelExists, \* os.path.exists(MODEL_PATH)
    pc,          \* the statement about to run
    audio_path,  \* transcribe_audio's parameter
    model,       \* the invocation has loaded a model: Model(MODEL_PATH) returned
    wfOpen,      \* the audio file handle is open
    pos,         \* wf's read position, in frames
    rec,         \* the invocation has built a recognizer: KaldiRecognizer(..) returned
    data,        \* frames in the chunk readframes returned last
    endpoint,    \* what AcceptWaveform returned last
    results,     \* the list of accumulated texts
    exc,         \* the exception in flight, None when there is none
    result,      \* transcribe_audio's return value
    stdout,      \* the lines printed
    exitCode,    \* the process exit status (NoExit while running)
    calls,       \* invocations of transcribe_audio so far
    log,         \* engine and file calls of the current invocation, in order
    memo,        \* the environment's answers so far
    hist         \* completed invocations: <<audio_path, result>>

vars == <<argv, fs, modelExists, pc, audio_path, model, wfOpen, pos, rec, data,
          endpoint, results, exc, result, stdout, exitCode, calls, log, memo, hist>>

----------------------------------------------------------------------------
\* Bounds of the model.

MaxChunks == 3
MaxArgs == 2
MaxChannels == 2
MaxCalls == 3

\* wf.readframes(4000)
CHUNK == 4000

Paths == {"a.wav", "b.wav"}

\* Frame counts at and next to every chunk boundary up to MaxChunks chunks.
FrameCounts ==
    {k * CHUNK + d : k \in 0..(MaxChunks - 1), d \in {0, 1}}
        \cup {CHUNK - 1, MaxChunks * CHUNK}

\* Texts the engine may put in a result document.
Texts == {<<>>, <<"a">>, <<"b">>, <<" ">>}

\* A result document of the engine after json.loads: a set of <<key, value>>.
Docs == {{}} \cup {{<<"text", t>>} : t \in Texts}

NoExit == -1
None == [none |-> TRUE]
NoFile == [exists |-> FALSE, nchannels |-> 0, nframes |-> 0]

----------------------------------------------------------------------------
\* Pure helpers.

IsSpace(c) == c = " "

RECURSIVE LStrip(_)
LStrip(s) ==
    IF Len(s) > 0 /\ IsSpace(Head(s)) THEN LStrip(Tail(s)) ELSE s

RECURSIVE RStrip(_)
RStrip(s) ==
    IF Len(s) > 0 /\ IsSpace(s[Len(s)])
    THEN RStrip(SubSeq(s, 1, Len(s) - 1))
    ELSE s

\* str.strip()
Strip(s) == RStrip(LStrip(s))

RECURSIVE Join(_)
\* " ".join(xs)
Join(xs) ==
    IF Len(xs) = 0 THEN <<>>
    ELSE IF Len(xs) = 1 THEN Head(xs)
    ELSE Head(xs) \o <<" ">> \o Join(Tail(xs))

\* dict.get(k): None when the key is missing.
Get(d, k) ==
    IF \E p \in d : p[1] = k
    THEN [some |-> TRUE, val |-> (CHOOSE p \in d : p[1] = k)[2]]
    ELSE [some |-> FALSE]

TruthyAlways(v) == v.some

\* `if result.get("text"):` None and "" are falsy.
Truthy(v) == v.some /\ Len(v.val) > 0

SuccessWithError(t) == [success |-> TRUE, text |-> t, error |-> <<>>]

\* {"success": True, "text": text}
SuccessResult(t) == [success |-> TRUE, text |-> t]

\* {"success": False, "error": msg}
FailureResult(msg) == [success |-> FALSE, error |-> msg]

\* json.dumps(result): the keys in insertion order, booleans as JSON literals.
Dumps(r) ==
    IF r.success
    THEN << <<"success", "true">>, <<"text", r.text>> >>
    ELSE << <<"success", "false">>, <<"error", r.error>> >>

\* str(e)
Str(e) == <<e.msg>>

\* One call of the engine or the wave module: its argument and what it returned.
Entry(op, n, ret) == [op |-> op, n |-> n, ret |-> ret]

Min(a, b) == IF a < b THEN a ELSE b

----------------------------------------------------------------------------
\* The environment.

Files ==
    {NoFile} \cup
    {[exists |-> TRUE, nchannels |-> c, nframes |-> n] :
        c \in 1..MaxChannels, n \in FrameCounts}

\* The files the repeated-invocation harness draws from.
RepeatFiles ==
    {NoFile} \cup
    {[exists |-> TRUE, nchannels |-> c, nframes |-> n] :
        c \in 1..MaxChannels, n \in {0, 1}}

Ok == [raise |-> FALSE, val |-> TRUE]
Fail == [raise |-> TRUE, val |-> TRUE]
OkOrFail == {Ok, Fail}

\* The answers the environment may give to question `key`: any of `opts`
\* the first time, the remembered one afterwards.
Answers(key, opts) ==
    IF key \in DOMAIN memo THEN {memo[key]} ELSE opts

Remember(key, o) ==
    IF key \in DOMAIN memo THEN memo ELSE memo @@ (key :> o)

\* The exception each call raises when it fails.
ErrorOf(op) ==
    [msg |->
        CASE op = "Model" -> "Failed to create a model"
          [] op = "open" -> "file does not start with RIFF id"
          [] op = "getnchannels" -> "getnchannels failed"
          [] op = "KaldiRecognizer" -> "Failed to create a recognizer"
          [] op = "SetWords" -> "SetWords failed"
          [] op = "readframes" -> "read error"
          [] op = "AcceptWaveform" -> "Failed to process waveform"
          [] op = "Result" -> "Expecting value: line 1 column 1 (char 0)"
          [] op = "FinalResult" -> "Expecting value: line 1 column 1 (char 0)"
          [] op = "close" -> "close failed"]

cliVars == <<argv, stdout, exitCode>>
envVars == <<fs, modelExists>>
locals == <<model, wfOpen, pos, rec, data, endpoint, results>>

----------------------------------------------------------------------------
\* transcribe_audio, lines 15-52.

\* A call inside the try block raises e: control goes to the handler.
Raise(e) ==
    /\ exc' = e
    /\ pc' = "L51"
    /\ result' = result

HandledBestEffort(e, acc) == SuccessResult(Strip(Join(acc)))

\* What the handler returns for exception e; the accumulated texts are dropped.
Handled(e, acc) == FailureResult(Str(e))

\* except Exception as e: return {"success": False, "error": str(e)}
Except ==
    /\ pc = "L51"
    /\ result' = Handled(exc, results)
    /\ exc' = None
    /\ pc' = "return"
    /\ UNCHANGED <<cliVars, envVars, locals, audio_path, calls, log, memo, hist>>

ModelMissingNever == FALSE

\* not os.path.exists(MODEL_PATH)
ModelMissing == ~modelExists

\* if not os.path.exists(MODEL_PATH): return {... "Vosk model not found"}
CheckModel ==
    /\ pc = "L18"
    /\ IF ModelMissing
       THEN /\ result' = FailureResult(<<"Vosk model not found">>)
            /\ pc' = "return"
            /\ UNCHANGED exc
       ELSE /\ pc' = "L21"
            /\ UNCHANGED <<result, exc>>
    /\ UNCHANGED <<cliVars, envVars, locals, audio_path, calls, log, memo, hist>>

\* model = Model(MODEL_PATH)
LoadModel ==
    /\ pc = "L21"
    /\ \E o \in Answers(<<"", "Model", 0>>, OkOrFail) :
         /\ memo' = Remember(<<"", "Model", 0>>, o)
         /\ log' = Append(log, Entry("Model", 0, ~o.raise))
         /\ IF o.raise
            THEN Raise(ErrorOf("Model")) /\ UNCHANGED model
            ELSE model' = TRUE /\ pc' = "L23" /\ UNCHANGED <<result, exc>>
    /\ UNCHANGED <<cliVars, envVars, wfOpen, pos, rec, data, endpoint, results,
                   audio_path, calls, hist>>

\* wf = wave.open(audio_path, "rb")
OpenWave ==
    /\ pc = "L23"
    /\ \E o \in Answers(<<audio_path, "open", 0>>,
                        IF fs[audio_path].exists THEN OkOrFail ELSE {Fail}) :
         /\ memo' = Remember(<<audio_path, "open", 0>>, o)
         /\ log' = Append(log, Entry("open", 0, ~o.raise))
         /\ IF o.raise
            THEN Raise(ErrorOf("open")) /\ UNCHANGED <<wfOpen, pos>>
            ELSE /\ wfOpen' = TRUE
                 /\ pos' = 0
                 /\ pc' = "L25"
                 /\ UNCHANGED <<result, exc>>
    /\ UNCHANGED <<cliVars, envVars, model, rec, data, endpoint, results,
                   audio_path, calls, hist>>

IsMonoAnyCount(n) == TRUE

\* wf.getnchannels() != 1, negated
IsMono(n) == n = 1

\* if wf.getnchannels() != 1: return {... "Audio must be mono"}
CheckChannels ==
    /\ pc = "L25"
    /\ \E o \in Answers(<<audio_path, "getnchannels", 0>>, OkOrFail) :
         /\ memo' = Remember(<<audio_path, "getnchannels", 0>>, o)
         /\ log' = Append(log, Entry("getnchannels", 0, ~o.raise))
         /\ IF o.raise
            THEN Raise(ErrorOf("getnchannels"))
            ELSE IF ~IsMono(fs[audio_path].nchannels)
            THEN /\ result' = FailureResult(<<"Audio must be mono">>)
                 /\ pc' = "return"
                 /\ UNCHANGED exc
            ELSE /\ pc' = "L28"
                 /\ UNCHANGED <<result, exc>>
    /\ UNCHANGED <<cliVars, envVars, locals, audio_path, calls, hist>>

\* rec = KaldiRecognizer(model, wf.getframerate())
MakeRecognizer ==
    /\ pc = "L28"
    /\ \E o \in Answers(<<audio_path, "KaldiRecognizer", 0>>, OkOrFail) :
         /\ memo' = Remember(<<audio_path, "KaldiRecognizer", 0>>, o)
         /\ log' = log \o <<Entry("getframerate", 0, TRUE),
                             Entry("KaldiRecognizer", 0, ~o.raise)>>
         /\ IF o.raise
            THEN Raise(ErrorOf("KaldiRecognizer")) /\ UNCHANGED rec
            ELSE rec' = TRUE /\ pc' = "L29" /\ UNCHANGED <<result, exc>>
    /\ UNCHANGED <<cliVars, envVars, model, wfOpen, pos, data, endpoint, results,
                   audio_path, calls, hist>>

\* rec.SetWords(True)
SetWords ==
    /\ pc = "L29"
    /\ \E o \in Answers(<<audio_path, "SetWords", 0>>, OkOrFail) :
         /\ memo' = Remember(<<audio_path, "SetWords", 0>>, o)
         /\ log' = Append(log, Entry("SetWords", 0, ~o.raise))
         /\ IF o.raise
            THEN Raise(ErrorOf("SetWords"))
            ELSE pc' = "L31" /\ UNCHANGED <<result, exc>>
    /\ UNCHANGED <<cliVars, envVars, locals, audio_path, calls, hist>>

KeptResults(prev) == prev

\* results = []
NewResults(prev) == <<>>

InitResults ==
    /\ pc = "L31"
    /\ results' = NewResults(results)
    /\ pc' = "L33"
    /\ UNCHANGED <<exc, cliVars, envVars, model, wfOpen, pos, rec, data, endpoint,
                   result, audio_path, calls, log, memo, hist>>

ReadAll(want, left) == left

\* The frames readframes(want) returns when `left` frames remain.
ReadFrames(want, left) == Min(want, left)

\* data = wf.readframes(4000)
ReadChunk ==
    /\ pc = "L33"
    /\ \E o \in Answers(<<audio_path, "readframes", pos>>, OkOrFail) :
         /\ memo' = Remember(<<audio_path, "readframes", pos>>, o)
         /\ log' = Append(log, Entry("readframes", CHUNK, ~o.raise))
         /\ IF o.raise
            THEN Raise(ErrorOf("readframes")) /\ UNCHANGED <<data, pos>>
            ELSE /\ data' = ReadFrames(CHUNK, fs[audio_path].nframes - pos)
                 /\ pos' = pos + data'
                 /\ pc' = "L34"
                 /\ UNCHANGED <<result, exc>>
    /\ UNCHANGED <<cliVars, envVars, model, wfOpen, rec, endpoint, results,
                   audio_path, calls, hist>>

\* if len(data) == 0: break
CheckEnd ==
    /\ pc = "L34"
    /\ pc' = IF data = 0 THEN "L42" ELSE "L36"
    /\ UNCHANGED <<exc, cliVars, envVars, locals, result, audio_path, calls, log,
                   memo, hist>>

FeedAnswers ==
    {[raise |-> TRUE, val |-> FALSE]} \cup
    {[raise |-> FALSE, val |-> v] : v \in BOOLEAN}

\* if rec.AcceptWaveform(data):
AcceptWaveform ==
    /\ pc = "L36"
    /\ \E o \in Answers(<<audio_path, "AcceptWaveform", pos>>,
                        FeedAnswers) :
         /\ memo' = Remember(<<audio_path, "AcceptWaveform", pos>>, o)
         /\ log' = Append(log, Entry("AcceptWaveform", data, ~o.raise /\ o.val))
         /\ IF o.raise
            THEN Raise(ErrorOf("AcceptWaveform")) /\ UNCHANGED endpoint
            ELSE /\ endpoint' = o.val
                 /\ pc' = IF o.val THEN "L37" ELSE "L33"
                 /\ UNCHANGED <<result, exc>>
    /\ UNCHANGED <<cliVars, envVars, model, wfOpen, pos, rec, data, results,
                   audio_path, calls, hist>>

DocAnswers ==
    {[raise |-> TRUE, val |-> {}]} \cup {[raise |-> FALSE, val |-> d] : d \in Docs}

\* if d.get("text"): results.append(d["text"])
Collect(acc, d) ==
    IF Truthy(Get(d, "text")) THEN Append(acc, Get(d, "text").val) ELSE acc

\* result = json.loads(rec.Result()); if result.get("text"): results.append(...)
PartialResult ==
    /\ pc = "L37"
    /\ \E o \in Answers(<<audio_path, "Result", pos>>, DocAnswers) :
         /\ memo' = Remember(<<audio_path, "Result", pos>>, o)
         /\ log' = Append(log, Entry("Result", 0, ~o.raise))
         /\ IF o.raise
            THEN Raise(ErrorOf("Result")) /\ UNCHANGED results
            ELSE /\ results' = Collect(results, o.val)
                 /\ pc' = "L33"
                 /\ UNCHANGED <<result, exc>>
    /\ UNCHANGED <<cliVars, envVars, model, wfOpen, pos, rec, data, endpoint,
                   audio_path, calls, hist>>

\* final = json.loads(rec.FinalResult()); if final.get("text"): results.append(...)
FinalResult ==
    /\ pc = "L42"
    /\ \E o \in Answers(<<audio_path, "FinalResult", 0>>, DocAnswers) :
         /\ memo' = Remember(<<audio_path, "FinalResult", 0>>, o)
         /\ log' = Append(log, Entry("FinalResult", 0, ~o.raise))
         /\ IF o.raise
            THEN Raise(ErrorOf("FinalResult")) /\ UNCHANGED results
            ELSE /\ results' = Collect(results, o.val)
                 /\ pc' = "L46"
                 /\ UNCHANGED <<result, exc>>
    /\ UNCHANGED <<cliVars, envVars, model, wfOpen, pos, rec, data, endpoint,
                   audio_path, calls, hist>>

\* wf.close()
CloseWave ==
    /\ pc = "L46"
    /\ \E o \in Answers(<<audio_path, "close", 0>>, OkOrFail) :
         /\ memo' = Remember(<<audio_path, "close", 0>>, o)
         /\ log' = Append(log, Entry("close", 0, ~o.raise))
         /\ IF o.raise
            THEN Raise(ErrorOf("close")) /\ UNCHANGED wfOpen
            ELSE wfOpen' = FALSE /\ pc' = "L48" /\ UNCHANGED <<result, exc>>
    /\ UNCHANGED <<cliVars, envVars, model, pos, rec, data, endpoint, results,
                   audio_path, calls, hist>>

\* text = " ".join(results).strip(); return {"success": True, "text": text}
JoinAndReturn ==
    /\ pc = "L48"
    /\ result' = SuccessResult(Strip(Join(results)))
    /\ pc' = "return"
    /\ UNCHANGED <<exc, cliVars, envVars, locals, audio_path, calls, log, memo, hist>>

\* The function returns and its frame is dropped.  Off the success path
\* nothing in the function closes wf: whether the handle is finalized at this
\* point is up to the runtime's garbage collector, so both outcomes are
\* possible.
Return ==
    /\ pc = "return"
    /\ pc' = "returned"
    /\ hist' = Append(hist, <<audio_path, result>>)
    /\ \E finalized \in BOOLEAN : wfOpen' = (wfOpen /\ ~finalized)
    /\ UNCHANGED <<exc, cliVars, envVars, model, pos, rec, data, endpoint,
                   results, result, audio_path, calls, log, memo>>

----------------------------------------------------------------------------
\* __main__, lines 54-66.

\* sys.exit(1)
ExitFailure == 1

ExitStatusBySuccess(r) == IF r.success THEN 0 ELSE 1

\* The script runs off its end: exit status 0, whatever the result says.
ExitStatus(r) == 0

WrongArgCountOffByOne(n) == n # 2

\* len(sys.argv) != 2, sys.argv[0] being the script
WrongArgCount(n) == n + 1 # 2

\* if len(sys.argv) != 2: print(usage); sys.exit(1)
CheckArgs ==
    /\ pc = "L55"
    /\ IF WrongArgCount(Len(argv))
       THEN /\ stdout' = Append(stdout,
                Dumps(FailureResult(<<"Usage: stt.py <audio_file>">>)))
            /\ exitCode' = ExitFailure
            /\ pc' = "exit"
       ELSE /\ pc' = "L61"
            /\ UNCHANGED <<stdout, exitCode>>
    /\ UNCHANGED <<exc, argv, envVars, locals, result, audio_path, calls, log, memo,
                   hist>>

\* if not os.path.exists(audio_file): print(file not found); sys.exit(1)
CheckFile ==
    /\ pc = "L61"
    /\ IF ~fs[argv[1]].exists
       THEN /\ stdout' = Append(stdout,
                Dumps(FailureResult(<<"File not found: ", argv[1]>>)))
            /\ exitCode' = ExitFailure
            /\ pc' = "exit"
       ELSE /\ pc' = "L65"
            /\ UNCHANGED <<stdout, exitCode>>
    /\ UNCHANGED <<exc, argv, envVars, locals, result, audio_path, calls, log, memo,
                   hist>>

\* result = transcribe_audio(audio_file): the call
Call ==
    /\ pc = "L65"
    /\ audio_path' = argv[1]
    /\ calls' = calls + 1
    /\ model' = FALSE
    /\ rec' = FALSE
    /\ log' = <<>>
    /\ pc' = "L18"
    /\ UNCHANGED <<exc, cliVars, envVars, wfOpen, pos, data, endpoint, results,
                   result, memo, hist>>

\* print(json.dumps(result)), and the script ends
PrintResult ==
    /\ pc = "returned"
    /\ stdout' = Append(stdout, Dumps(result))
    /\ exitCode' = ExitStatus(result)
    /\ pc' = "exit"
    /\ UNCHANGED <<exc, argv, envVars, locals, result, audio_path, calls, log, memo,
                   hist>>

Init ==
    /\ argv \in UNION {[1..n -> Paths] : n \in 0..MaxArgs}
    /\ \E f \in Files :
         fs = [p \in Paths |-> IF Len(argv) >= 1 /\ p = argv[1] THEN f ELSE NoFile]
    /\ modelExists \in BOOLEAN
    /\ pc = "L55"
    /\ audio_path = ""
    /\ model = FALSE
    /\ wfOpen = FALSE
    /\ pos = 0
    /\ rec = FALSE
    /\ data = 0
    /\ endpoint = FALSE
    /\ results = <<>>
    /\ exc = None
    /\ result = None
    /\ stdout = <<>>
    /\ exitCode = NoExit
    /\ calls = 0
    /\ log = <<>>
    /\ memo = <<>>
    /\ hist = <<>>

Transcribe ==
    \/ CheckModel
    \/ LoadModel
    \/ OpenWave
    \/ CheckChannels
    \/ MakeRecognizer
    \/ SetWords
    \/ InitResults
    \/ ReadChunk
    \/ CheckEnd
    \/ AcceptWaveform
    \/ PartialResult
    \/ FinalResult
    \/ CloseWave
    \/ JoinAndReturn
    \/ Except
    \/ Return

Next ==
    \/ CheckArgs
    \/ CheckFile
    \/ Call
    \/ Transcribe
    \/ PrintResult

Spec == Init /\ [][Next]_vars

----------------------------------------------------------------------------
\* transcribe_audio invoked several times in one process (the module
\* imported and the function called), on files that do not change and with
\* an engine that answers the same question the same way.

InvokeAgain ==
    /\ pc \in {"idle", "returned"}
    /\ calls < MaxCalls
    /\ \E p \in Paths : audio_path' = p
    /\ calls' = calls + 1
    /\ model' = FALSE
    /\ rec' = FALSE
    /\ log' = <<>>
    /\ pc' = "L18"
    /\ UNCHANGED <<exc, cliVars, envVars, wfOpen, pos, data, endpoint, results,
                   result, memo, hist>>

InitRepeat ==
    /\ argv = <<>>
    /\ fs \in [Paths -> RepeatFiles]
    /\ modelExists \in BOOLEAN
    /\ pc = "idle"
    /\ audio_path = ""
    /\ model = FALSE
    /\ wfOpen = FALSE
    /\ pos = 0
    /\ rec = FALSE
    /\ data = 0
    /\ endpoint = FALSE
    /\ results = <<>>
    /\ exc = None
    /\ result = None
    /\ stdout = <<>>
    /\ exitCode = NoExit
    /\ calls = 0
    /\ log = <<>>
    /\ memo = <<>>
    /\ hist = <<>>

NextRepeat ==
    \/ InvokeAgain
    \/ Transcribe

SpecRepeat == InitRepeat /\ [][NextRepeat]_vars

----------------------------------------------------------------------------
\* Vocabulary of the properties.

\* transcribe_audio has returned to its caller.
Returned == pc = "returned" \/ (pc = "exit" /\ calls > 0)

\* The environment raised in answer to `op` on the file being transcribed.
Raised(op) ==
    \E k \in DOMAIN memo :
        /\ k[2] = op
        /\ k[1] \in {"", audio_path}
        /\ memo[k].raise

Ops(seq, op) == SelectSeq(seq, LAMBDA e : e.op = op)

Called(op) == \E i \in 1..Len(log) : log[i].op = op

UsageLine ==
    << <<"success", "false">>, <<"error", <<"Usage: stt.py <audio_file>">>>> >>

NotFoundLine(path) ==
    << <<"success", "false">>, <<"error", <<"File not found: ", path>>>> >>

MonoFailure == [success |-> FALSE, error |-> <<"Audio must be mono">>]

ModelFailure == [success |-> FALSE, error |-> <<"Vosk model not found">>]

----------------------------------------------------------------------------
\* C1: on every exit path of transcribe_audio the audio file handle opened
\* during the call has been released by the time the function has returned.
C1_ReleasedOnEveryExit == Returned => ~wfOpen

\* C2: every result transcribe_audio produces carries exactly one payload
\* field: `text` and no `error` when success is true, `error` and no `text`
\* when success is false.
C2_ExactlyOnePayload ==
    /\ result # None =>
          /\ result.success => DOMAIN result = {"success", "text"}
          /\ ~result.success => DOMAIN result = {"success", "error"}
    /\ \A i \in 1..Len(hist) :
          /\ hist[i][2].success => DOMAIN hist[i][2] = {"success", "text"}
          /\ ~hist[i][2].success => DOMAIN hist[i][2] = {"success", "error"}

\* A failure produced by the exception handler, after texts were accumulated.
C2_Witness ==
    /\ pc = "returned"
    /\ ~result.success
    /\ Raised("close")
    /\ Len(results) > 0

\* C3: when the model directory is missing, transcribe_audio returns the
\* "Vosk model not found" failure for every audio path, before any other
\* step: no model load, no file open, no recognizer, no engine or file call.
C3_MissingModelFirst ==
    (~modelExists /\ calls > 0) =>
        /\ pc \in {"L18", "return", "returned", "exit"}
        /\ log = <<>>
        /\ ~model /\ ~wfOpen /\ ~rec
        /\ pc # "L18" => result = ModelFailure

C3_Witness ==
    /\ ~modelExists
    /\ pc = "returned"
    /\ fs[audio_path].nchannels = 2
    /\ result = ModelFailure

\* C4 as stated: for every audio input whose channel count is not 1 the
\* result is the "Audio must be mono" failure, and no recognizer is
\* constructed and no chunk is read or fed.
C4_NonMonoAlwaysMonoError ==
    (Returned /\ fs[audio_path].exists /\ fs[audio_path].nchannels # 1) =>
        /\ result = MonoFailure
        /\ ~rec
        /\ ~Called("KaldiRecognizer")
        /\ ~Called("readframes")
        /\ ~Called("AcceptWaveform")

\* C4 amended: for every audio input whose channel count is not 1, no
\* recognizer is constructed and no chunk is read or fed; and when the model
\* directory exists and neither loading the model, opening the file nor
\* reading the channel count raises, the result is the "Audio must be mono"
\* failure.
C4_NonMonoRejected ==
    (calls > 0 /\ fs[audio_path].exists /\ fs[audio_path].nchannels # 1) =>
        /\ ~rec
        /\ ~Called("KaldiRecognizer")
        /\ ~Called("readframes")
        /\ ~Called("AcceptWaveform")
        /\ (/\ Returned
            /\ modelExists
            /\ ~Raised("Model")
            /\ ~Raised("open")
            /\ ~Raised("getnchannels")) => result = MonoFailure

C4_Witness ==
    /\ pc = "returned"
    /\ modelExists
    /\ fs[audio_path].nchannels = 2
    /\ result = MonoFailure
    /\ Called("getnchannels")

\* C5: an exception raised at any step inside transcribe_audio does not
\* leave the function: the call returns the failure result carrying the
\* exception's text, the texts accumulated so far are not returned, and the
\* script prints that failure and ends normally.
C5_ExceptionsBecomeFailures ==
    \A k \in DOMAIN memo :
        memo[k].raise =>
            /\ pc \in {"L51", "return", "returned", "exit"}
            /\ pc = "L51" => exc = ErrorOf(k[2])
            /\ pc # "L51" =>
                  result = [success |-> FALSE, error |-> <<ErrorOf(k[2]).msg>>]
            /\ pc = "exit" =>
                  /\ stdout = << << <<"success", "false">>,
                                    <<"error", <<ErrorOf(k[2]).msg>>>> >> >>
                  /\ exitCode = 0

\* The final flush raised after a text had been accumulated.
C5_Witness ==
    /\ pc = "returned"
    /\ Raised("FinalResult")
    /\ Len(results) > 0
    /\ ~result.success

\* C6: the pre-checks end the run, in order: a wrong argument count prints
\* the usage failure and exits 1; otherwise a path that does not exist prints
\* the file-not-found failure with that path and exits 1.  Either way one
\* line is printed and transcribe_audio is not invoked.
C6_PreChecks ==
    /\ Len(argv) # 1 =>
          /\ pc \in {"L55", "exit"}
          /\ calls = 0
          /\ pc = "exit" => stdout = <<UsageLine>> /\ exitCode = 1
    /\ (Len(argv) = 1 /\ ~fs[argv[1]].exists) =>
          /\ pc \in {"L55", "L61", "exit"}
          /\ calls = 0
          /\ pc = "exit" => stdout = <<NotFoundLine(argv[1])>> /\ exitCode = 1
    /\ pc # "exit" => stdout = <<>> /\ exitCode = NoExit

\* Two arguments, the first naming a file that exists: usage wins.
C6_Witness ==
    /\ pc = "exit"
    /\ Len(argv) = 2
    /\ fs[argv[1]].exists
    /\ stdout = <<UsageLine>>
    /\ exitCode = 1

\* C7: with exactly one argument naming an existing path the script invokes
\* transcribe_audio exactly once, prints that call's result as its only
\* line, and exits 0 whether the result is a success or a failure; the exit
\* status is 1 only after a failed pre-check.
C7_OneCallExitZero ==
    /\ calls <= 1
    /\ (Len(argv) = 1 /\ fs[argv[1]].exists /\ pc = "exit") =>
          /\ calls = 1
          /\ Len(hist) = 1
          /\ hist[1] = <<argv[1], result>>
          /\ Len(stdout) = 1
          /\ stdout[1][1] =
                <<"success", IF result.success THEN "true" ELSE "false">>
          /\ stdout[1][2] =
                IF result.success THEN <<"text", result.text>>
                                  ELSE <<"error", result.error>>
          /\ exitCode = 0
    /\ exitCode = 1 => (Len(argv) # 1 \/ ~fs[argv[1]].exists)
    /\ pc = "exit" => exitCode \in {0, 1}

\* A non-mono failure printed with exit status 0.
C7_Witness ==
    /\ pc = "exit"
    /\ Len(argv) = 1
    /\ result = MonoFailure
    /\ exitCode = 0
    /\ calls = 1

----------------------------------------------------------------------------
\* What the engine produced during the current invocation, from its answers.

RECURSIVE Ascending(_)
Ascending(S) ==
    IF S = {} THEN <<>>
    ELSE LET m == CHOOSE x \in S : \A y \in S : x <= y
         IN <<m>> \o Ascending(S \ {m})

\* Read positions at which a partial result was delivered, in file order.
PartialPositions ==
    Ascending({k[3] : k \in {q \in DOMAIN memo :
        q[1] = audio_path /\ q[2] = "Result" /\ ~memo[q].raise}})

\* The text of a result document; the empty text when it has none.
TextOf(d) == IF d = {} THEN <<>> ELSE (CHOOSE p \in d : TRUE)[2]

\* Every text produced: one per endpoint, in chunk order, then the final one.
ProducedTexts ==
    [i \in 1..Len(PartialPositions) |->
        TextOf(memo[<<audio_path, "Result", PartialPositions[i]>>].val)]
    \o (IF <<audio_path, "FinalResult", 0>> \in DOMAIN memo
        THEN <<TextOf(memo[<<audio_path, "FinalResult", 0>>].val)>>
        ELSE <<>>)

NonEmptyTexts == SelectSeq(ProducedTexts, LAMBDA t : Len(t) > 0)

\* C8: on success the returned text is the non-empty texts the engine
\* produced (one per endpoint, in chunk order, then the final one), joined
\* by single spaces and trimmed; empty and missing texts add nothing, and
\* with no non-empty text the text is empty.
C8_JoinedNonEmptyTexts ==
    (Returned /\ result.success) =>
        LET n == Len(NonEmptyTexts) IN
        /\ results = NonEmptyTexts
        /\ result.text = Strip(Join(NonEmptyTexts))
        /\ n = 0 => result.text = <<>>
        /\ (\A i \in 1..n : NonEmptyTexts[i] \in {<<"a">>, <<"b">>}) =>
              /\ Len(result.text) = IF n = 0 THEN 0 ELSE 2 * n - 1
              /\ \A i \in 1..n : result.text[2 * i - 1] = NonEmptyTexts[i][1]
              /\ \A i \in 1..(n - 1) : result.text[2 * i] = " "

\* An empty text between two non-empty ones.
C8_Witness ==
    /\ pc = "returned"
    /\ result.success
    /\ Len(ProducedTexts) = 3
    /\ ProducedTexts[1] = <<"b">>
    /\ ProducedTexts[2] = <<>>
    /\ ProducedTexts[3] = <<"a">>
    /\ result.text = <<"b", " ", "a">>

----------------------------------------------------------------------------
\* The order of the engine and file calls of the current invocation.

NFrames == fs[audio_path].nframes

\* ceil(N / 4000)
NChunks == (NFrames + 4000 - 1) \div 4000

\* The frames of chunk i of the file.
ChunkSize(i) == IF NFrames - (i - 1) * 4000 < 4000
                THEN NFrames - (i - 1) * 4000
                ELSE 4000

Feeds == Ops(log, "AcceptWaveform")

Protocol ==
    /\ Len(Feeds) <= NChunks
    /\ \A i \in 1..Len(Feeds) :
          /\ Feeds[i].n = ChunkSize(i)
          /\ Feeds[i].n > 0
          /\ Feeds[i].n <= 4000
    /\ \A j \in 1..Len(log) :
          /\ log[j].op = "AcceptWaveform" =>
                /\ j > 1
                /\ log[j - 1].op = "readframes"
                /\ log[j - 1].ret
          /\ log[j].op = "Result" =>
                /\ j > 1
                /\ log[j - 1].op = "AcceptWaveform"
                /\ log[j - 1].ret
          /\ log[j].op = "FinalResult" =>
                /\ Len(Feeds) = NChunks
                /\ \A i \in 1..Len(log) : log[i].op = "FinalResult" => i = j
                /\ \A i \in 1..Len(log) : log[i].op = "AcceptWaveform" => i < j
                /\ \A i \in 1..Len(log) : log[i].op = "close" => i > j
    /\ (Returned /\ result.success) =>
          /\ Len(Feeds) = NChunks
          /\ Len(Ops(log, "readframes")) = NChunks + 1
          /\ Len(Ops(log, "FinalResult")) = 1
          /\ Len(log) >= 2
          /\ log[Len(log)].op = "close"
          /\ log[Len(log) - 1].op = "FinalResult"

\* C9: for a mono file of N frames the read loop ends (at most ceil(N/4000)+1
\* reads, and every state short of the exit has a next step), and the engine
\* is driven in a fixed order: consecutive chunks of at most 4000 frames, each non-empty
\* chunk fed once and in file order (ceil(N/4000) feeds), an empty chunk never
\* fed, a partial result asked for only right after a feed that signalled an
\* endpoint, and the final flush asked for once, after the last feed and
\* before the file is closed and the result returned.
C9_ReadLoopProtocol ==
    /\ calls > 0 => Protocol
    /\ calls > 0 => Len(Ops(log, "readframes")) <= NChunks + 1
    /\ pc = "exit" \/ ENABLED Next

\* Two full chunks and a partial one, the second feed signalling an endpoint.
C9_Witness ==
    /\ pc = "returned"
    /\ result.success
    /\ NFrames = 2 * 4000 + 1
    /\ Len(Feeds) = 3
    /\ Feeds[3].n = 1
    /\ ~Feeds[1].ret /\ Feeds[2].ret /\ ~Feeds[3].ret
    /\ Len(Ops(log, "Result")) = 1

\* C10: transcribe_audio keeps nothing between invocations: with the same
\* files, the same model-presence condition and an engine that answers the
\* same way, two invocations on the same input return the same result,
\* whatever was transcribed in between or before.
C10_SameInputSameResult ==
    \A i, j \in 1..Len(hist) :
        hist[i][1] = hist[j][1] => hist[i][2] = hist[j][2]

\* A file transcribed to a non-empty text, then another file to another
\* text, then the first file again.
C10_Witness ==
    /\ Len(hist) = 3
    /\ hist[1][1] = hist[3][1]
    /\ hist[2][1] # hist[1][1]
    /\ hist[1][2].success
    /\ hist[2][2].success
    /\ hist[3][2].success
    /\ hist[2][2].text = <<"b">>
    /\ hist[3][2].text = <<"a", " ", "b">>

====
